---------------------------- MODULE Spec2Model ----------------------------
(***************************************************************************)
(* Watchtower: KPI monitor (watchtower/monitoring/alert_kpis.py), playbook  *)
(* routes and their routing (watchtower/api/routes/playbooks.py), drift     *)
(* detector (watchtower/monitoring/drift.py), coverage monitor              *)
(* (watchtower/monitoring/coverage.py) and the route GET /coverage/calculate *)
(* (watchtower/api/routes/coverage.py).                                     *)
(*                                                                         *)
(* Metric values are fixed-point numbers: a Python float v that carries at  *)
(* most four decimals is the integer v * Scale.                             *)
(***************************************************************************)
EXTENDS Integers, Sequences, FiniteSets

VARIABLES
    outcomes,       \* rows fetched by calculate_kpis: <<actual, predicted>>
    confusion,      \* locals of calculate_kpis: tp, fp, tn, fn, totals
    kpis,           \* dict metric_name -> value, as the ordered <<name, value>> items
    classified,     \* status and severity assigned per metric in the loop
    alerts,         \* list returned by check_kpi_thresholds
    kpi_pc,         \* position of the KPI computation
    kpis_table,     \* rows of the kpis table
    alert_results,  \* monitor_kpis: one {'alert', 'sent'} entry per send_alert call
    kpi_summary,    \* value returned by monitor_kpis
    alert_settings, \* settings.alert_email and settings.alert_webhook: set or None
    transport_calls,  \* calls of _send_email_alert and _send_webhook_alert
    registry,       \* registry.yaml: the 'playbooks' list
    playbook_executions,  \* rows of the playbook_executions table
    requests,       \* POST /{playbook_id}/execute requests and their handler frames
    current,        \* the request whose handler holds the event loop
    now,            \* int(datetime.now().timestamp())
    http_request,   \* a request to the /playbooks router: method, path, body
    matched,        \* endpoint of the route that took the request
    http_response,  \* status code of the response, 0 while there is none
    drift_call,     \* the DriftDetector entry point that is invoked
    baseline_data,  \* detect_statistical_drift: the baseline 'amount' column
    current_data,   \* detect_statistical_drift: the current 'amount' column
    ks_pvalue,      \* p-value stats.ks_2samp returns for the two samples
    hourly,         \* rows of the hourly accuracy query: <<total, correct>>
    transactions,   \* transactions table as read by the drift queries: <<amount, age>>
    drift_result,   \* value returned by the detector that was invoked
    drift_pc,       \* position of monitor_drift
    feature_ix,     \* monitor_drift: index of the feature of the current iteration
    concept_drift,  \* monitor_drift: local of the current iteration
    covariate_drift,  \* monitor_drift: local of the current iteration
    drift_results,  \* monitor_drift: the drift_results list
    drift_detection,  \* rows of the drift_detection table
    drift_summary,  \* value returned by monitor_drift
    coverage_call,  \* the CoverageMonitor entry point that is invoked
    coverage_window,  \* joined rows of the last 24 hours, oldest first: <<is_fraud, prediction>>
    last_hour,      \* number of rows of coverage_window that are of the last hour
    hours_back,     \* GET /coverage/calculate: the hours_back query parameter
    threshold_arg,  \* identify_coverage_gaps: the threshold argument, <<>> for None
    coverage_data,  \* list returned by get_coverage_by_category
    gaps,           \* value returned by identify_coverage_gaps
    risk_coverage,  \* rows of the risk_coverage table
    coverage_summary,  \* value returned by monitor_coverage
    coverage_pc     \* position of monitor_coverage

kpiVars == <<outcomes, confusion, kpis, classified, alerts, kpi_pc,
             kpis_table, alert_results, kpi_summary, alert_settings,
             transport_calls>>

playbookVars == <<registry, playbook_executions, requests, current, now,
                  http_request, matched, http_response>>

httpVars == <<http_request, matched, http_response>>

driftVars == <<drift_call, baseline_data, current_data, ks_pvalue, hourly,
               transactions, drift_result, drift_pc, feature_ix, concept_drift,
               covariate_drift, drift_results, drift_detection, drift_summary>>

coverageVars == <<coverage_call, coverage_window, last_hour, hours_back, threshold_arg,
                  coverage_data,
                  gaps, risk_coverage, coverage_summary, coverage_pc>>

vars == <<kpiVars, playbookVars, driftVars, coverageVars>>

-----------------------------------------------------------------------------
(* Bounds *)

MaxRecords == 4

MaxMetrics == 2

MaxRequests == 2

MaxTime == 1

-----------------------------------------------------------------------------
(* KPIMonitor *)

Scale == 10000

\* KPIMonitor.__init__: self.alert_thresholds, values times Scale.
alert_thresholds ==
    [ accuracy            |-> [min |-> 8500, max |-> 10000, critical |-> 8000],
      precision           |-> [min |-> 8000, max |-> 10000, critical |-> 7500],
      recall              |-> [min |-> 7500, max |-> 10000, critical |-> 7000],
      f1_score            |-> [min |-> 8000, max |-> 10000, critical |-> 7500],
      auc_score           |-> [min |-> 8500, max |-> 10000, critical |-> 8000],
      false_positive_rate |-> [min |-> 0,    max |-> 1000,  critical |-> 1500],
      false_negative_rate |-> [min |-> 0,    max |-> 2000,  critical |-> 2500] ]

NoConfusion == [tp |-> 0, fp |-> 0, tn |-> 0, fn |-> 0,
                total_samples |-> 0, correct_predictions |-> 0]

\* Number of rows of df that satisfy a column predicate: (mask).sum().
RECURSIVE CountRows(_, _)
CountRows(df, actual_predicted) ==
    IF df = <<>> THEN 0
    ELSE (IF Head(df) \in actual_predicted THEN 1 ELSE 0)
         + CountRows(Tail(df), actual_predicted)

\* Variant: the fn mask tests the actual label only.
confusion_counts_fn_mask(df) ==
    [ total_samples       |-> Len(df),
      correct_predictions |-> CountRows(df, {<<0, 0>>, <<1, 1>>}),
      tp |-> CountRows(df, {<<1, 1>>}),
      fp |-> CountRows(df, {<<0, 1>>}),
      tn |-> CountRows(df, {<<0, 0>>}),
      fn |-> CountRows(df, {<<1, 0>>, <<1, 1>>}) ]

\* calculate_kpis, lines 71-78: the confusion-matrix counts.
confusion_counts(df) ==
    [ total_samples       |-> Len(df),
      correct_predictions |-> CountRows(df, {<<0, 0>>, <<1, 1>>}),
      tp |-> CountRows(df, {<<1, 1>>}),
      fp |-> CountRows(df, {<<0, 1>>}),
      tn |-> CountRows(df, {<<0, 0>>}),
      fn |-> CountRows(df, {<<1, 0>>}) ]

\* Variant: truncation to four decimals instead of rounding.
round4_truncate(n, d) == (n * Scale) \div d

\* round(n / d, 4) as a fixed-point value: nearest multiple of 1/Scale, a tie
\* going to the even neighbour. n >= 0, d > 0.
round4(n, d) ==
    LET q == (n * Scale) \div d
        r == (n * Scale) % d
    IN  IF 2 * r < d THEN q
        ELSE IF 2 * r > d THEN q + 1
        ELSE IF q % 2 = 0 THEN q ELSE q + 1

\* "x / y if y > 0 else 0" as the fraction <<numerator, denominator>>.
ratio_or_zero(x, y) == IF y > 0 THEN <<x, y>> ELSE <<0, 1>>

\* 2 * (precision * recall) / (precision + recall) if (precision + recall) > 0 else 0
f1_fraction(precision, recall) ==
    LET prod_n == precision[1] * recall[1]
        prod_d == precision[2] * recall[2]
        sum_n  == precision[1] * recall[2] + recall[1] * precision[2]
        sum_d  == precision[2] * recall[2]
    IN  IF sum_n > 0 THEN <<2 * prod_n * sum_d, prod_d * sum_n>> ELSE <<0, 1>>

\* Variant: the "if not result: return {}" guard is missing.
calculate_kpis_no_empty_check(df) ==
    LET c == confusion_counts(df)
        accuracy  == ratio_or_zero(c.correct_predictions, c.total_samples)
        precision == ratio_or_zero(c.tp, c.tp + c.fp)
        recall    == ratio_or_zero(c.tp, c.tp + c.fn)
        f1_score  == f1_fraction(precision, recall)
        false_positive_rate == ratio_or_zero(c.fp, c.fp + c.tn)
        false_negative_rate == ratio_or_zero(c.fn, c.fn + c.tp)
    IN  << <<"accuracy", round4(accuracy[1], accuracy[2])>>,
           <<"precision", round4(precision[1], precision[2])>>,
           <<"recall", round4(recall[1], recall[2])>>,
           <<"f1_score", round4(f1_score[1], f1_score[2])>>,
           <<"auc_score", 8500>>,
           <<"false_positive_rate",
             round4(false_positive_rate[1], false_positive_rate[2])>>,
           <<"false_negative_rate",
             round4(false_negative_rate[1], false_negative_rate[2])>>,
           <<"total_samples", c.total_samples>> >>

\* calculate_kpis, lines 65-101: the returned dict, in insertion order.
calculate_kpis(df) ==
    IF df = <<>> THEN <<>>
    ELSE
      LET c == confusion_counts(df)
          accuracy  == ratio_or_zero(c.correct_predictions, c.total_samples)
          precision == ratio_or_zero(c.tp, c.tp + c.fp)
          recall    == ratio_or_zero(c.tp, c.tp + c.fn)
          f1_score  == f1_fraction(precision, recall)
          false_positive_rate == ratio_or_zero(c.fp, c.fp + c.tn)
          false_negative_rate == ratio_or_zero(c.fn, c.fn + c.tp)
      IN  << <<"accuracy", round4(accuracy[1], accuracy[2])>>,
             <<"precision", round4(precision[1], precision[2])>>,
             <<"recall", round4(recall[1], recall[2])>>,
             <<"f1_score", round4(f1_score[1], f1_score[2])>>,
             <<"auc_score", 8500>>,
             <<"false_positive_rate",
               round4(false_positive_rate[1], false_positive_rate[2])>>,
             <<"false_negative_rate",
               round4(false_negative_rate[1], false_negative_rate[2])>>,
             <<"total_samples", c.total_samples>> >>

\* Variant: the "value > max" branch is missing.
status_and_severity_no_max(value, thresholds) ==
    IF value < thresholds.critical THEN [status |-> "critical", severity |-> "high"]
    ELSE IF value < thresholds.min THEN [status |-> "warning", severity |-> "medium"]
    ELSE [status |-> "healthy", severity |-> "low"]

\* check_kpi_thresholds, lines 121-132: the if/elif chain.
status_and_severity(value, thresholds) ==
    IF value < thresholds.critical THEN [status |-> "critical", severity |-> "high"]
    ELSE IF value < thresholds.min THEN [status |-> "warning", severity |-> "medium"]
    ELSE IF value > thresholds.max THEN [status |-> "warning", severity |-> "medium"]
    ELSE [status |-> "healthy", severity |-> "low"]

\* check_kpi_thresholds, line 115: metrics without a thresholds entry are skipped.
has_thresholds(metric_name) == metric_name \in DOMAIN alert_thresholds

\* The (status, severity) pairs the loop computes, one per metric it does not skip.
RECURSIVE classify_all(_)
classify_all(items) ==
    IF items = <<>> THEN <<>>
    ELSE LET metric_name == Head(items)[1]
             value       == Head(items)[2]
         IN  IF ~has_thresholds(metric_name) THEN classify_all(Tail(items))
             ELSE LET s == status_and_severity(value, alert_thresholds[metric_name])
                  IN  << [metric_name |-> metric_name, value |-> value,
                          status |-> s.status, severity |-> s.severity] >>
                      \o classify_all(Tail(items))

\* Variant: a metric without thresholds ends the loop (break for continue).
RECURSIVE check_kpi_thresholds_break(_)
check_kpi_thresholds_break(items) ==
    IF items = <<>> THEN <<>>
    ELSE LET metric_name == Head(items)[1]
             value       == Head(items)[2]
         IN  IF ~has_thresholds(metric_name) THEN <<>>
             ELSE LET thresholds == alert_thresholds[metric_name]
                      s == status_and_severity(value, thresholds)
                  IN  IF s.status # "healthy"
                      THEN << [metric_name        |-> metric_name,
                               current_value      |-> value,
                               threshold_min      |-> thresholds.min,
                               threshold_max      |-> thresholds.max,
                               threshold_critical |-> thresholds.critical,
                               status             |-> s.status,
                               severity           |-> s.severity] >>
                           \o check_kpi_thresholds_break(Tail(items))
                      ELSE check_kpi_thresholds_break(Tail(items))

\* check_kpi_thresholds, lines 112-149: the alerts list.  The message and the
\* timestamp of an alert are left out.
RECURSIVE check_kpi_thresholds(_)
check_kpi_thresholds(items) ==
    IF items = <<>> THEN <<>>
    ELSE LET metric_name == Head(items)[1]
             value       == Head(items)[2]
         IN  IF ~has_thresholds(metric_name) THEN check_kpi_thresholds(Tail(items))
             ELSE LET thresholds == alert_thresholds[metric_name]
                      s == status_and_severity(value, thresholds)
                  IN  IF s.status # "healthy"
                      THEN << [metric_name        |-> metric_name,
                               current_value      |-> value,
                               threshold_min      |-> thresholds.min,
                               threshold_max      |-> thresholds.max,
                               threshold_critical |-> thresholds.critical,
                               status             |-> s.status,
                               severity           |-> s.severity] >>
                           \o check_kpi_thresholds(Tail(items))
                      ELSE check_kpi_thresholds(Tail(items))

-----------------------------------------------------------------------------
(* Inputs *)

Labels == {0, 1}

\* Windows of outcome records: BOOLEAN actual and predicted labels.
Windows == UNION { [1..n -> Labels \X Labels] : n \in 0..MaxRecords }

MetricNames == DOMAIN alert_thresholds \cup {"total_samples"}

\* Values probed for a metric: each threshold, its neighbours, and an interior value.
ProbeValues(metric_name) ==
    IF has_thresholds(metric_name)
    THEN LET t == alert_thresholds[metric_name]
         IN  {t.critical - 1, t.critical, t.min - 1, t.min, t.max, t.max + 1,
              (t.min + t.max) \div 2}
    ELSE {4}

Items == UNION { {<<m, v>> : v \in ProbeValues(m)} : m \in MetricNames }

\* A dict has each key once.
KpiDicts ==
    UNION { { d \in [1..n -> Items] :
                \A i, j \in 1..n : i # j => d[i][1] # d[j][1] } :
            n \in 0..MaxMetrics }

-----------------------------------------------------------------------------
(* Playbook routes *)

Requests == 1..MaxRequests

NoTask == 0

\* A registry with an active playbook, an inactive one, and an active one
\* with two trigger conditions.
SampleRegistry ==
    << [id |-> 1, name |-> "notify_and_retrain", is_active |-> TRUE,
        trigger_conditions |-> [severity |-> "high"],
        actions |-> <<"notify_team", "trigger_retrain">>],
       [id |-> 2, name |-> "pause", is_active |-> FALSE,
        trigger_conditions |-> [severity |-> "high"],
        actions |-> <<"pause_model">>],
       [id |-> 3, name |-> "raise", is_active |-> TRUE,
        trigger_conditions |-> [severity |-> "high", metric_name |-> "accuracy"],
        actions |-> <<"raise_threshold">>] >>

\* playbook_id path parameters: the registered ids and one that is not registered.
PlaybookIds == 1..(Len(SampleRegistry) + 1)

\* execution_data bodies: flat views of the triggering alert.
Events ==
    { [severity |-> "high"],
      [severity |-> "low", metric_name |-> "accuracy"] }

NoPlaybook == [id |-> 0, name |-> "", is_active |-> FALSE,
               trigger_conditions |-> [severity |-> ""], actions |-> <<>>]

NoExecution == [execution_id |-> <<0, 0>>, playbook_id |-> 0, status |-> "none",
                trigger_data |-> [severity |-> ""], actions_executed |-> <<>>,
                execution_log |-> <<>>]

IdleRequest == [pc |-> "idle", playbook_id |-> 0, execution_data |-> [severity |-> ""],
                playbook |-> NoPlaybook, todo |-> <<>>,
                execution_record |-> NoExecution, response |-> 0]

\* get_playbook, lines 104-124: the playbook with that id, or the 404 that the
\* handler's own "except Exception" turns into a 500.
get_playbook(playbook_id) ==
    LET found == { i \in DOMAIN registry : registry[i].id = playbook_id }
    IN  IF found = {}
        THEN [status_code |-> 500, playbook |-> NoPlaybook]
        ELSE [status_code |-> 200,
              playbook |-> registry[CHOOSE i \in found : \A j \in found : i <= j]]

\* execute_playbook, lines 144-155: the execution record as created.
new_execution_record(playbook_id, execution_data, timestamp) ==
    [ execution_id     |-> <<playbook_id, timestamp>>,
      playbook_id      |-> playbook_id,
      status           |-> "running",
      trigger_data     |-> execution_data,
      actions_executed |-> <<>>,
      execution_log    |-> <<>> ]

\* execute_playbook, line 191: the status assigned after the action loop.
final_status(actions_executed) == "completed"

\* Variant: an action that runs awaits its I/O, so the handler yields there.
suspension_points_await_action == {"action"}

\* Points of execute_playbook, once the record exists, at which the coroutine
\* yields to the event loop: "created" (line 155), "action" (end of a loop
\* iteration).  The only await is "await get_playbook(...)" on line 141, before
\* the record exists, and it runs a coroutine that never suspends; the action
\* loop and the store write are synchronous.  The handler yields nowhere.
suspension_points == {}

\* The event loop runs one handler until it yields or returns.
after_step(r, point) == IF point \in suspension_points THEN NoTask ELSE r

\* A handler that the event loop may run a step of.
can_run(r) == current = r \/ (current = NoTask /\ requests[r].pc = "actions")

\* A client posts /{playbook_id}/execute; the request waits for the event loop.
Submit(r, playbook_id, execution_data) ==
    /\ requests[r].pc = "idle"
    /\ requests' = [requests EXCEPT ![r] =
                        [@ EXCEPT !.pc = "queued", !.playbook_id = playbook_id,
                                  !.execution_data = execution_data]]
    /\ UNCHANGED <<registry, playbook_executions, current, now, httpVars,
                   kpiVars, driftVars, coverageVars>>

\* execute_playbook, lines 139-155, playbook found: the record is created running.
BeginExecution(r, dt) ==
    /\ requests[r].pc = "queued"
    /\ current = NoTask
    /\ now + dt <= MaxTime
    /\ get_playbook(requests[r].playbook_id).status_code = 200
    /\ now' = now + dt
    /\ requests' = [requests EXCEPT ![r] =
            [@ EXCEPT !.pc = "actions",
                      !.playbook = get_playbook(requests[r].playbook_id).playbook,
                      !.todo = get_playbook(requests[r].playbook_id).playbook.actions,
                      !.execution_record =
                          new_execution_record(requests[r].playbook_id,
                                               requests[r].execution_data, now')]]
    /\ current' = after_step(r, "created")
    /\ UNCHANGED <<registry, playbook_executions, httpVars,
                   kpiVars, driftVars, coverageVars>>

\* execute_playbook, lines 141 and 217-219: get_playbook raised.
PlaybookNotFound(r) ==
    /\ requests[r].pc = "queued"
    /\ current = NoTask
    /\ get_playbook(requests[r].playbook_id).status_code # 200
    /\ requests' = [requests EXCEPT ![r] = [@ EXCEPT !.pc = "done", !.response = 500]]
    /\ UNCHANGED <<registry, playbook_executions, current, now, httpVars,
                   kpiVars, driftVars, coverageVars>>

\* "for action in actions" has an action left; todo holds the remaining ones.
in_action_loop(r) ==
    /\ requests[r].pc = "actions"
    /\ can_run(r)
    /\ requests[r].todo # <<>>

\* The frame of request r after the loop body logged the action with a status.
log_action(r, status, mark, remaining) ==
    LET action == Head(requests[r].todo)
    IN  [requests EXCEPT ![r] =
            [@ EXCEPT !.todo = remaining,
                      !.execution_record =
                          [@ EXCEPT !.actions_executed =
                                        Append(@, [action |-> action, status |-> status]),
                                    !.execution_log = Append(@, <<action, mark>>)]]]

\* execute_playbook, lines 162-177: the action runs and is logged as success.
ActionSucceeds(r) ==
    /\ in_action_loop(r)
    /\ requests' = log_action(r, "success", "Success", Tail(requests[r].todo))
    /\ current' = after_step(r, "action")
    /\ UNCHANGED <<registry, playbook_executions, now, httpVars,
                   kpiVars, driftVars, coverageVars>>

\* Variant: a failed action ends the loop.
after_failure_abort(todo) == <<>>

\* execute_playbook, lines 179-188: the except branch falls through to the
\* next iteration, so the actions left are those after the failed one.
after_failure(todo) == Tail(todo)

\* execute_playbook, lines 179-188: the action raises and is logged as failed.
\* The try body (lines 163-177) stands for the execution of the action.
ActionFails(r) ==
    /\ in_action_loop(r)
    /\ requests' = log_action(r, "failed", "Failed", after_failure(requests[r].todo))
    /\ current' = after_step(r, "action")
    /\ UNCHANGED <<registry, playbook_executions, now, httpVars,
                   kpiVars, driftVars, coverageVars>>

loop_finished(r) ==
    /\ requests[r].pc = "actions"
    /\ can_run(r)
    /\ requests[r].todo = <<>>

\* execute_playbook, lines 190-215: the record is updated, inserted and returned.
StoreExecution(r) ==
    /\ loop_finished(r)
    /\ LET record == [requests[r].execution_record EXCEPT
                          !.status = final_status(@.actions_executed)]
       IN  /\ requests' = [requests EXCEPT ![r] =
                  [@ EXCEPT !.pc = "done", !.execution_record = record,
                            !.response = 200]]
           /\ playbook_executions' = Append(playbook_executions,
                  [ execution_id  |-> record.execution_id,
                    playbook_id   |-> record.playbook_id,
                    status        |-> record.status,
                    execution_log |-> record.execution_log ])
    /\ current' = NoTask
    /\ UNCHANGED <<registry, now, httpVars,
                   kpiVars, driftVars, coverageVars>>

\* execute_playbook, lines 190-196 and 217-219: connect or INSERT raises.
StoreFails(r) ==
    /\ loop_finished(r)
    /\ requests' = [requests EXCEPT ![r] =
           [@ EXCEPT !.pc = "done", !.response = 500,
                     !.execution_record =
                         [@ EXCEPT !.status = final_status(@.actions_executed)]]]
    /\ current' = NoTask
    /\ UNCHANGED <<registry, playbook_executions, now, httpVars,
                   kpiVars, driftVars, coverageVars>>

-----------------------------------------------------------------------------
(* Routing of the requests to the /playbooks router *)

\* No request has arrived.
NoHttpRequest == [method |-> "", path |-> <<>>, body |-> <<>>]

NoHttp ==
    /\ http_request = NoHttpRequest
    /\ matched = "none"
    /\ http_response = 0

\* The routes of the router in their registration order (the decorators of
\* playbooks.py, lines 17, 51, 94, 126, 221, 266 and 302); a path is the list
\* of its segments after the prefix /playbooks (main.py, line 38).
routes ==
    << [method |-> "GET",  path |-> <<>>,                              endpoint |-> "get_playbooks"],
       [method |-> "POST", path |-> <<>>,                              endpoint |-> "create_playbook"],
       [method |-> "GET",  path |-> <<"{playbook_id}">>,               endpoint |-> "get_playbook"],
       [method |-> "POST", path |-> <<"{playbook_id}", "execute">>,    endpoint |-> "execute_playbook"],
       [method |-> "GET",  path |-> <<"{playbook_id}", "executions">>, endpoint |-> "get_playbook_executions"],
       [method |-> "GET",  path |-> <<"templates">>,                   endpoint |-> "get_playbook_templates"],
       [method |-> "GET",  path |-> <<"summary">>,                     endpoint |-> "get_playbook_summary"] >>

\* "playbook_id: int" (lines 95, 128, 223): the path segments that convert to
\* an int, with their values.
path_ints ==
    [ segment \in {"1", "2", "3", "4"} |->
        CASE segment = "1" -> 1
          [] segment = "2" -> 2
          [] segment = "3" -> 3
          [] segment = "4" -> 4 ]

\* The path of a route matches a request path: the same number of segments,
\* a parameter segment taking any segment and a literal one only itself.
path_matches(route, path) ==
    /\ Len(route.path) = Len(path)
    /\ \A i \in DOMAIN path :
          route.path[i] = "{playbook_id}" \/ route.path[i] = path[i]

\* The routes whose path and method match the request.
routes_matching(request) ==
    { i \in DOMAIN routes :
        routes[i].method = request.method /\ path_matches(routes[i], request.path) }

\* The router hands the request to the first matching route in registration
\* order; without one the answer is 404.
first_match(request) ==
    IF routes_matching(request) = {} THEN "none"
    ELSE routes[CHOOSE i \in routes_matching(request) :
                    \A j \in routes_matching(request) : i <= j].endpoint

\* The playbook_id argument of the endpoint: the first segment as an int.
playbook_id_of(request) == path_ints[request.path[1]]

\* The endpoint takes a playbook_id and the segment does not convert to int.
invalid_playbook_id(endpoint, request) ==
    /\ endpoint \in {"get_playbook", "execute_playbook", "get_playbook_executions"}
    /\ request.path[1] \notin DOMAIN path_ints

\* A request is taken by the first matching route; a playbook_id that is not
\* an int is answered 422 before the endpoint is called, no route 404.
Route ==
    /\ http_request # NoHttpRequest
    /\ matched = "none"
    /\ http_response = 0
    /\ matched' = first_match(http_request)
    /\ http_response' =
          IF first_match(http_request) = "none" THEN 404
          ELSE IF invalid_playbook_id(first_match(http_request), http_request)
               THEN 422
               ELSE 0
    /\ UNCHANGED <<registry, playbook_executions, requests, current, now,
                   http_request, kpiVars, driftVars, coverageVars>>

\* The endpoint that was matched is called and has not answered.
called(endpoint) == matched = endpoint /\ http_response = 0

\* create_playbook, line 63.
required_fields == <<"name", "trigger_conditions", "actions">>

\* create_playbook, lines 64-66: a required field is missing from the body.
missing_field(playbook_data) ==
    \E i \in DOMAIN required_fields : required_fields[i] \notin DOMAIN playbook_data

\* create_playbook, lines 61-92: a body without a required field raises
\* HTTPException(400) inside the try block, which "except Exception" answers
\* with 500; otherwise the playbook gets the next id and joins the registry
\* (it has no is_active key, which get_playbooks reads as active), or the
\* write of the registry file raises.
CreatePlaybook ==
    /\ called("create_playbook")
    /\ IF missing_field(http_request.body)
       THEN /\ http_response' = 500
            /\ registry' = registry
       ELSE \/ /\ registry' = Append(registry,
                       [ id                 |-> Len(registry) + 1,
                         name               |-> http_request.body.name,
                         is_active          |-> TRUE,
                         trigger_conditions |-> http_request.body.trigger_conditions,
                         actions            |-> http_request.body.actions ])
               /\ http_response' = 200
            \/ /\ registry' = registry
               /\ http_response' = 500
    /\ UNCHANGED <<playbook_executions, requests, current, now, http_request,
                   matched, kpiVars, driftVars, coverageVars>>

\* GET /{playbook_id}: the answer of get_playbook, lines 104-124.
GetPlaybook ==
    /\ called("get_playbook")
    /\ http_response' = get_playbook(playbook_id_of(http_request)).status_code
    /\ UNCHANGED <<registry, playbook_executions, requests, current, now,
                   http_request, matched, kpiVars, driftVars, coverageVars>>

\* POST /{playbook_id}/execute: execute_playbook is called with the path
\* parameter and the body.
ExecutePlaybook ==
    /\ called("execute_playbook")
    /\ Submit(1, playbook_id_of(http_request), http_request.body)

\* The endpoints that only read: get_playbooks (lines 29-49),
\* get_playbook_executions (lines 234-264), get_playbook_templates (lines
\* 276-300) and get_playbook_summary (lines 314-366) answer 200, or 500 when
\* the read raises.
ReadOnlyEndpoints ==
    {"get_playbooks", "get_playbook_executions", "get_playbook_templates",
     "get_playbook_summary"}

Read ==
    /\ matched \in ReadOnlyEndpoints
    /\ http_response = 0
    /\ http_response' \in {200, 500}
    /\ UNCHANGED <<registry, playbook_executions, requests, current, now,
                   http_request, matched, kpiVars, driftVars, coverageVars>>

IdlePlaybooks ==
    /\ registry = <<>>
    /\ playbook_executions = <<>>
    /\ requests = [r \in Requests |-> IdleRequest]
    /\ current = NoTask
    /\ now = 0
    /\ NoHttp

\* A monitoring function that has not returned.
NoReturn == [returned |-> FALSE]

\* A detector that has not been called.
NoResult == [called |-> FALSE]

\* config.py, lines 33-34: alert_email and alert_webhook default to None.
NoTransports == [alert_email |-> FALSE, alert_webhook |-> FALSE]

\* Settings with each of the two transports configured or not.
AlertSettings == [alert_email : BOOLEAN, alert_webhook : BOOLEAN]

IdleKpi ==
    /\ outcomes = <<>>
    /\ confusion = NoConfusion
    /\ kpis = <<>>
    /\ classified = <<>>
    /\ alerts = <<>>
    /\ kpi_pc = "idle"
    /\ kpis_table = <<>>
    /\ alert_results = <<>>
    /\ kpi_summary = NoReturn
    /\ alert_settings = NoTransports
    /\ transport_calls = <<>>

IdleDrift ==
    /\ drift_call = "idle"
    /\ baseline_data = <<>>
    /\ current_data = <<>>
    /\ ks_pvalue = <<1, 1>>
    /\ hourly = <<>>
    /\ transactions = <<>>
    /\ drift_result = NoResult
    /\ drift_pc = "idle"
    /\ feature_ix = 1
    /\ concept_drift = NoResult
    /\ covariate_drift = NoResult
    /\ drift_results = <<>>
    /\ drift_detection = <<>>
    /\ drift_summary = NoReturn

IdleCoverage ==
    /\ coverage_call = "idle"
    /\ coverage_window = <<>>
    /\ last_hour = 0
    /\ hours_back = 24
    /\ threshold_arg = <<>>
    /\ coverage_data = <<>>
    /\ gaps = NoResult
    /\ risk_coverage = <<>>
    /\ coverage_summary = NoReturn
    /\ coverage_pc = "idle"

InitPlaybook ==
    /\ registry = SampleRegistry
    /\ playbook_executions = <<>>
    /\ requests = [r \in Requests |-> IdleRequest]
    /\ current = NoTask
    /\ now = 0
    /\ NoHttp
    /\ IdleKpi
    /\ IdleDrift
    /\ IdleCoverage

NextPlaybook ==
    \E r \in Requests :
        \/ \E playbook_id \in PlaybookIds, execution_data \in Events :
              Submit(r, playbook_id, execution_data)
        \/ \E dt \in {0, 1} : BeginExecution(r, dt)
        \/ PlaybookNotFound(r)
        \/ ActionSucceeds(r)
        \/ ActionFails(r)
        \/ StoreExecution(r)
        \/ StoreFails(r)

SpecPlaybook == InitPlaybook /\ [][NextPlaybook]_vars

-----------------------------------------------------------------------------
(* Specification of one request to the /playbooks router *)

\* Path segments: the ids of the registry, one that is not registered, and
\* the two literal paths.
Segments == DOMAIN path_ints \cup {"templates", "summary"}

\* Bodies of POST /: each subset of the required fields.
PlaybookBodies ==
    { [field \in fields |->
          CASE field = "name"               -> "new"
            [] field = "trigger_conditions" -> [severity |-> "high"]
            [] field = "actions"            -> <<"notify_team">>] :
      fields \in SUBSET {"name", "trigger_conditions", "actions"} }

HttpRequests ==
    {[method |-> "GET", path |-> <<>>, body |-> <<>>]}
    \cup { [method |-> "POST", path |-> <<>>, body |-> body] : body \in PlaybookBodies }
    \cup { [method |-> "GET", path |-> <<segment>>, body |-> <<>>] : segment \in Segments }
    \cup { [method |-> "POST", path |-> <<segment, "execute">>, body |-> event] :
             segment \in Segments, event \in Events }
    \cup { [method |-> "GET", path |-> <<segment, "executions">>, body |-> <<>>] :
             segment \in Segments }
    \cup { [method |-> "GET", path |-> <<segment, "history">>, body |-> <<>>] :
             segment \in Segments }

InitRoutes ==
    /\ registry \in {<<>>, SampleRegistry}
    /\ playbook_executions = <<>>
    /\ requests = [r \in Requests |-> IdleRequest]
    /\ current = NoTask
    /\ now = 0
    /\ http_request \in HttpRequests
    /\ matched = "none"
    /\ http_response = 0
    /\ IdleKpi
    /\ IdleDrift
    /\ IdleCoverage

NextRoutes ==
    \/ Route
    \/ CreatePlaybook
    \/ GetPlaybook
    \/ ExecutePlaybook
    \/ Read
    \/ \E dt \in {0, 1} : BeginExecution(1, dt)
    \/ PlaybookNotFound(1)
    \/ ActionSucceeds(1)
    \/ ActionFails(1)
    \/ StoreExecution(1)
    \/ StoreFails(1)

SpecRoutes == InitRoutes /\ [][NextRoutes]_vars

-----------------------------------------------------------------------------
(* Specification of the threshold classifier on arbitrary dicts *)

InitClassify ==
    /\ outcomes = <<>>
    /\ confusion = NoConfusion
    /\ kpis \in KpiDicts
    /\ classified = <<>>
    /\ alerts = <<>>
    /\ kpi_pc = "calculated"
    /\ kpis_table = <<>>
    /\ alert_results = <<>>
    /\ kpi_summary = NoReturn
    /\ alert_settings = NoTransports
    /\ transport_calls = <<>>
    /\ IdlePlaybooks
    /\ IdleDrift
    /\ IdleCoverage

CheckKpiThresholds ==
    /\ kpi_pc = "calculated"
    /\ alerts' = check_kpi_thresholds(kpis)
    /\ classified' = classify_all(kpis)
    /\ kpi_pc' = "checked"
    /\ UNCHANGED <<outcomes, confusion, kpis, kpis_table, alert_results, kpi_summary,
                   alert_settings, transport_calls,
                   playbookVars, driftVars, coverageVars>>

NextClassify == CheckKpiThresholds

SpecClassify == InitClassify /\ [][NextClassify]_vars

-----------------------------------------------------------------------------
(* Specification of the KPI monitoring cycle over a window (monitor_kpis) *)

InitKpi ==
    /\ outcomes \in Windows
    /\ confusion = NoConfusion
    /\ kpis = <<>>
    /\ classified = <<>>
    /\ alerts = <<>>
    /\ kpi_pc = "start"
    /\ kpis_table = <<>>
    /\ alert_results = <<>>
    /\ kpi_summary = NoReturn
    /\ alert_settings \in AlertSettings
    /\ transport_calls = <<>>
    /\ IdlePlaybooks
    /\ IdleDrift
    /\ IdleCoverage

\* monitor_kpis, line 302: kpis = monitor.calculate_kpis().
CalculateKpis ==
    /\ kpi_pc = "start"
    /\ confusion' = IF outcomes = <<>> THEN NoConfusion ELSE confusion_counts(outcomes)
    /\ kpis' = calculate_kpis(outcomes)
    /\ kpi_pc' = IF calculate_kpis(outcomes) = <<>> THEN "no_data" ELSE "calculated"
    /\ UNCHANGED <<outcomes, classified, alerts, kpis_table, alert_results,
                   kpi_summary, alert_settings, transport_calls,
                   playbookVars, driftVars, coverageVars>>

\* monitor_kpis, lines 304-305: "if not kpis: return {'error': ...}".
ReturnNoKpiData ==
    /\ kpi_pc = "no_data"
    /\ kpi_summary' = [error |-> "No KPI data available"]
    /\ kpi_pc' = "returned"
    /\ UNCHANGED <<outcomes, confusion, kpis, classified, alerts, kpis_table,
                   alert_results, alert_settings, transport_calls,
                   playbookVars, driftVars, coverageVars>>

\* store_kpi_metrics, lines 163-176: the row inserted for one dict item; a
\* column that receives None is left out.
kpi_row(item) ==
    IF has_thresholds(item[1])
    THEN [ metric_name   |-> item[1],
           metric_value  |-> item[2],
           threshold_min |-> alert_thresholds[item[1]].min,
           threshold_max |-> alert_thresholds[item[1]].max,
           status        |-> "healthy" ]
    ELSE [ metric_name   |-> item[1],
           metric_value  |-> item[2],
           status        |-> "healthy" ]

\* store_kpi_metrics: the rows inserted by the first k iterations of the loop.
store_kpi_metrics(items, k) == [i \in 1..k |-> kpi_row(items[i])]

\* monitor_kpis, line 311: every insert of store_kpi_metrics succeeds.
StoreKpiMetrics ==
    /\ kpi_pc = "checked"
    /\ kpis_table' = kpis_table \o store_kpi_metrics(kpis, Len(kpis))
    /\ kpi_pc' = "stored"
    /\ UNCHANGED <<outcomes, confusion, kpis, classified, alerts, alert_results,
                   kpi_summary, alert_settings, transport_calls,
                   playbookVars, driftVars, coverageVars>>

\* monitor_kpis, lines 311 and 336-338: an insert raises after k rows were
\* written; the outer except returns {'error': str(e)}.
StoreKpiMetricsFails ==
    /\ kpi_pc = "checked"
    /\ \E k \in 0..(Len(kpis) - 1) :
          kpis_table' = kpis_table \o store_kpi_metrics(kpis, k)
    /\ kpi_summary' = [error |-> "store_kpi_metrics"]
    /\ kpi_pc' = "returned"
    /\ UNCHANGED <<outcomes, confusion, kpis, classified, alerts, alert_results,
                   alert_settings, transport_calls,
                   playbookVars, driftVars, coverageVars>>

\* One call of a transport for an alert.
transport_call(alert, transport, raises) ==
    [metric_name |-> alert.metric_name, transport |-> transport, raised |-> raises]

\* Variant: a transport that raised is called a second time.
send_alert_retry(alert, email_raises, webhook_raises) ==
    LET email  == IF alert_settings.alert_email
                  THEN IF email_raises
                       THEN << transport_call(alert, "email", TRUE),
                               transport_call(alert, "email", TRUE) >>
                       ELSE << transport_call(alert, "email", FALSE) >>
                  ELSE <<>>
        failed == alert_settings.alert_email /\ email_raises
    IN  [sent |-> ~failed, calls |-> email]

\* send_alert, lines 180-201: the configured transports are called in turn,
\* email first; the first one that raises ends the try block and the result
\* is False, otherwise the result is True.  The result and the transport calls.
send_alert(alert, email_raises, webhook_raises) ==
    LET email          == IF alert_settings.alert_email
                          THEN << transport_call(alert, "email", email_raises) >>
                          ELSE <<>>
        email_failed   == alert_settings.alert_email /\ email_raises
        webhook        == IF ~email_failed /\ alert_settings.alert_webhook
                          THEN << transport_call(alert, "webhook", webhook_raises) >>
                          ELSE <<>>
        webhook_failed == webhook # <<>> /\ webhook_raises
    IN  [sent |-> ~(email_failed \/ webhook_failed), calls |-> email \o webhook]

\* monitor_kpis, lines 315-321: one iteration of the send loop.
SendAlert ==
    /\ kpi_pc = "stored"
    /\ Len(alert_results) < Len(alerts)
    /\ \E email_raises, webhook_raises \in BOOLEAN :
          LET alert   == alerts[Len(alert_results) + 1]
              success == send_alert(alert, email_raises, webhook_raises)
          IN  /\ alert_results' = Append(alert_results,
                                         [alert |-> alert, sent |-> success.sent])
              /\ transport_calls' = transport_calls \o success.calls
    /\ UNCHANGED <<outcomes, confusion, kpis, classified, alerts, kpi_pc, kpis_table,
                   kpi_summary, alert_settings, playbookVars, driftVars, coverageVars>>

\* monitor_kpis, lines 323-334: the summary.
ReturnKpiSummary ==
    /\ kpi_pc = "stored"
    /\ Len(alert_results) = Len(alerts)
    /\ kpi_summary' =
          [ kpis_calculated  |-> Len(kpis),
            alerts_generated |-> Len(alerts),
            alerts_sent      |-> Cardinality({i \in DOMAIN alert_results :
                                                alert_results[i].sent}),
            kpis             |-> kpis,
            alerts           |-> alerts,
            alert_results    |-> alert_results ]
    /\ kpi_pc' = "returned"
    /\ UNCHANGED <<outcomes, confusion, kpis, classified, alerts, kpis_table,
                   alert_results, alert_settings, transport_calls,
                   playbookVars, driftVars, coverageVars>>

NextKpi ==
    \/ CalculateKpis
    \/ ReturnNoKpiData
    \/ CheckKpiThresholds
    \/ StoreKpiMetrics
    \/ StoreKpiMetricsFails
    \/ SendAlert
    \/ ReturnKpiSummary

SpecKpi == InitKpi /\ [][NextKpi]_vars

-----------------------------------------------------------------------------
(* Claims about the threshold classifier (SpecClassify) *)

\* The classification rule as the specification words it.
RuleStatus(value, th) ==
    IF value < th.critical THEN "critical"
    ELSE IF value < th.min \/ value > th.max THEN "warning"
    ELSE "healthy"

RuleSeverity(status) ==
    CASE status = "critical" -> "high"
      [] status = "warning"  -> "medium"
      [] status = "healthy"  -> "low"

\* Positions of the input dict whose metric has a thresholds entry.
Thresholded == { i \in DOMAIN kpis : kpis[i][1] \in DOMAIN alert_thresholds }

\* Positions of the input dict whose metric is not healthy under the rule.
Unhealthy ==
    { i \in Thresholded :
        RuleStatus(kpis[i][2], alert_thresholds[kpis[i][1]]) # "healthy" }

\* The j-th smallest member of a set of positions.
Nth(S, j) == CHOOSE i \in S : Cardinality({k \in S : k <= i}) = j

\* C1: every metric with a thresholds entry gets exactly one status, critical
\* if value < critical, else warning if value < min or value > max, else
\* healthy, and the severity is high, medium, low respectively.
C1_StatusRule ==
    kpi_pc = "checked" =>
        /\ Len(classified) = Cardinality(Thresholded)
        /\ \A j \in DOMAIN classified :
             LET i  == Nth(Thresholded, j)
                 th == alert_thresholds[kpis[i][1]]
             IN  /\ classified[j].metric_name = kpis[i][1]
                 /\ classified[j].value = kpis[i][2]
                 /\ classified[j].status \in {"critical", "warning", "healthy"}
                 /\ classified[j].status = RuleStatus(kpis[i][2], th)
                 /\ classified[j].severity = RuleSeverity(classified[j].status)

\* A dict holding a value above max (warning) and a value below critical.
C1_Witness ==
    /\ kpi_pc = "checked"
    /\ \E a, b \in DOMAIN classified :
         /\ classified[a].status = "warning"
         /\ classified[a].value > alert_thresholds[classified[a].metric_name].max
         /\ classified[b].status = "critical"

\* C7: exactly one alert per non-healthy metric, in input order, none for a
\* healthy metric; a metric without thresholds gives no alert and does not
\* stop the alerts of the others.
C7_OneAlertPerUnhealthy ==
    kpi_pc = "checked" =>
        /\ Len(alerts) = Cardinality(Unhealthy)
        /\ \A j \in DOMAIN alerts :
             LET i == Nth(Unhealthy, j)
             IN  /\ alerts[j].metric_name = kpis[i][1]
                 /\ alerts[j].current_value = kpis[i][2]
                 /\ alerts[j].status =
                       RuleStatus(kpis[i][2], alert_thresholds[kpis[i][1]])

\* total_samples comes first and a non-healthy metric after it still alerts.
C7_Witness ==
    /\ kpi_pc = "checked"
    /\ Len(kpis) = 2
    /\ kpis[1][1] = "total_samples"
    /\ Len(alerts) = 1
    /\ alerts[1].metric_name = kpis[2][1]

\* C8: a value equal to a metric's min or max threshold is healthy and
\* produces no alert.
C8_InclusiveBounds ==
    kpi_pc = "checked" =>
        \A i \in Thresholded :
            LET th == alert_thresholds[kpis[i][1]]
            IN  (kpis[i][2] = th.min \/ kpis[i][2] = th.max) =>
                  /\ \A j \in DOMAIN classified :
                        classified[j].metric_name = kpis[i][1] =>
                            classified[j].status = "healthy"
                  /\ \A j \in DOMAIN alerts :
                        alerts[j].metric_name # kpis[i][1]

-----------------------------------------------------------------------------
(* Claims about calculate_kpis (SpecKpi) *)

\* kpis[key] of the returned dict.
KpiValue(key) == kpis[CHOOSE i \in DOMAIN kpis : kpis[i][1] = key][2]

Calculated == kpi_pc # "start" /\ outcomes # <<>>

\* C9: TP + FP + TN + FN = N = total_samples and accuracy lies in [0, 1].
C9_CountsSumToN ==
    Calculated =>
        /\ confusion.tp + confusion.fp + confusion.tn + confusion.fn
              = KpiValue("total_samples")
        /\ KpiValue("total_samples") = Len(outcomes)
        /\ KpiValue("accuracy") >= 0
        /\ KpiValue("accuracy") <= Scale

\* A window with at least one record in each cell of the confusion matrix.
C9_Witness ==
    /\ Calculated
    /\ confusion.tp > 0 /\ confusion.fp > 0
    /\ confusion.tn > 0 /\ confusion.fn > 0

Abs(x) == IF x < 0 THEN -x ELSE x

\* value = n / d exactly, or 0 when d = 0.
ExactQuotient(value, n, d) ==
    IF d = 0 THEN value = 0 ELSE value * d = Scale * n

\* value = n / d to the nearest 1/Scale, or 0 when d = 0.
RoundedQuotient(value, n, d) ==
    IF d = 0 THEN value = 0 ELSE 2 * Abs(value * d - Scale * n) <= d

\* Numerator and denominator of 2*precision*recall/(precision+recall) from the counts.
F1Num == 2 * confusion.tp * confusion.tp

F1Den == confusion.tp * (confusion.tp + confusion.fn)
         + confusion.tp * (confusion.tp + confusion.fp)

ScenarioWindow == << <<1, 1>>, <<0, 0>>, <<1, 0>>, <<0, 1>> >>

ScenarioHolds ==
    outcomes = ScenarioWindow =>
        /\ KpiValue("accuracy") = 5000
        /\ KpiValue("precision") = 5000
        /\ KpiValue("recall") = 5000
        /\ KpiValue("f1_score") = 5000

\* C10 as stated: each returned metric equals its quotient exactly.
C10_ExactFormulas ==
    Calculated =>
        LET c == confusion
        IN  /\ ExactQuotient(KpiValue("accuracy"), c.tp + c.tn, c.total_samples)
            /\ ExactQuotient(KpiValue("precision"), c.tp, c.tp + c.fp)
            /\ ExactQuotient(KpiValue("recall"), c.tp, c.tp + c.fn)
            /\ ExactQuotient(KpiValue("f1_score"), F1Num, F1Den)
            /\ ExactQuotient(KpiValue("false_positive_rate"), c.fp, c.fp + c.tn)
            /\ ExactQuotient(KpiValue("false_negative_rate"), c.fn, c.fn + c.tp)
            /\ ScenarioHolds

\* C10 amended: each returned metric is its quotient rounded to four decimal
\* places (0 when the denominator is 0); the four-record scenario gives 0.5
\* for accuracy, precision, recall and f1.
C10_RoundedFormulas ==
    Calculated =>
        LET c == confusion
        IN  /\ RoundedQuotient(KpiValue("accuracy"), c.tp + c.tn, c.total_samples)
            /\ RoundedQuotient(KpiValue("precision"), c.tp, c.tp + c.fp)
            /\ RoundedQuotient(KpiValue("recall"), c.tp, c.tp + c.fn)
            /\ RoundedQuotient(KpiValue("f1_score"), F1Num, F1Den)
            /\ RoundedQuotient(KpiValue("false_positive_rate"), c.fp, c.fp + c.tn)
            /\ RoundedQuotient(KpiValue("false_negative_rate"), c.fn, c.fn + c.tp)
            /\ ScenarioHolds

\* The four-record scenario has been computed.
C10_Witness ==
    /\ Calculated
    /\ outcomes = ScenarioWindow
    /\ KpiValue("f1_score") = 5000

-----------------------------------------------------------------------------
(* Claims about the playbook routes (SpecPlaybook) *)

\* Request r has an execution whose record is in the running state.
Running(r) == requests[r].execution_record.status = "running"

\* Request r has created an execution record.
HasExecution(r) == requests[r].execution_record.status # "none"

\* Request r has an execution that execute_playbook has finished with.
Finished(r) == requests[r].pc = "done" /\ HasExecution(r)

\* C2: never two running executions of the same playbook; a request for a
\* playbook with a running execution waits, and nothing is running once the
\* event loop is free again (the exclusion ends with the execution).
C2_OneRunningPerPlaybook ==
    /\ \A r1, r2 \in Requests :
          (r1 # r2 /\ Running(r1) /\ Running(r2)) =>
              requests[r1].playbook_id # requests[r2].playbook_id
    /\ \A r1, r2 \in Requests :
          (Running(r1) /\ r1 # r2
             /\ requests[r2].playbook_id = requests[r1].playbook_id) =>
                requests[r2].pc \in {"queued", "done"}
    /\ current = NoTask => \A r \in Requests : ~Running(r)

\* An execution with a failed action is running while a second request for the
\* same playbook is waiting.
C2_Witness ==
    \E r1, r2 \in Requests :
        /\ r1 # r2
        /\ Running(r1)
        /\ \E i \in DOMAIN requests[r1].execution_record.actions_executed :
              requests[r1].execution_record.actions_executed[i].status = "failed"
        /\ requests[r2].pc = "queued"
        /\ requests[r2].playbook_id = requests[r1].playbook_id

\* C3: an execution is created running and makes exactly one transition, to
\* success or failed; no other status is assigned or persisted, and a terminal
\* status never changes.
C3_StatusLifecycle ==
    [][ /\ \A r \in Requests :
            LET old == requests[r].execution_record.status
                new == requests'[r].execution_record.status
            IN  old # new =>
                  \/ old = "none" /\ new = "running"
                  \/ old = "running" /\ new \in {"success", "failed"}
        /\ \A i \in DOMAIN playbook_executions' :
              playbook_executions'[i].status \in {"running", "success", "failed"}
      ]_vars

AllSucceeded(record) ==
    \A i \in DOMAIN record.actions_executed :
        record.actions_executed[i].status = "success"

\* C4: a finished execution has status success exactly when every action log
\* entry is success, and failed when some entry is failed.
C4_StatusFromActions ==
    \A r \in Requests :
        Finished(r) =>
            LET record == requests[r].execution_record
            IN  /\ (record.status = "success") <=> AllSucceeded(record)
                /\ ~AllSucceeded(record) => record.status = "failed"

\* C5: a finished execution's action log has exactly one entry per action of
\* the playbook, in the playbook's order, each success or failed, also after
\* an earlier action failed.
C5_EveryActionAttempted ==
    \A r \in Requests :
        Finished(r) =>
            LET log     == requests[r].execution_record.actions_executed
                actions == requests[r].playbook.actions
            IN  /\ Len(log) = Len(actions)
                /\ \A i \in DOMAIN log :
                      /\ log[i].action = actions[i]
                      /\ log[i].status \in {"success", "failed"}

\* A finished execution whose first action failed and whose second succeeded.
C5_Witness ==
    \E r \in Requests :
        /\ Finished(r)
        /\ Len(requests[r].execution_record.actions_executed) = 2
        /\ requests[r].execution_record.actions_executed[1].status = "failed"
        /\ requests[r].execution_record.actions_executed[2].status = "success"

\* Every condition names a field of the event that has the required value.
ConditionsMatch(trigger_conditions, event) ==
    \A field \in DOMAIN trigger_conditions :
        /\ field \in DOMAIN event
        /\ event[field] = trigger_conditions[field]

\* C6: an execution exists only for a playbook that is active and all of
\* whose trigger conditions match the triggering event.
C6_OnlyActiveMatching ==
    \A r \in Requests :
        HasExecution(r) =>
            /\ requests[r].playbook.is_active
            /\ ConditionsMatch(requests[r].playbook.trigger_conditions,
                               requests[r].execution_record.trigger_data)

-----------------------------------------------------------------------------
(* Claims about the KPI monitoring cycle (SpecKpi) *)

\* C11: on a window without outcome records calculate_kpis returns no metrics
\* and does not raise, and monitor_kpis then generates no alert, writes no row
\* to the kpis table, sends no notification and returns a value.
C11_EmptyWindowProducesNothing ==
    (outcomes = <<>> /\ kpi_pc # "start") =>
        /\ kpis = <<>>
        /\ kpi_pc \in {"no_data", "returned"}
        /\ alerts = <<>>
        /\ classified = <<>>
        /\ kpis_table = <<>>
        /\ alert_results = <<>>
        /\ kpi_pc = "returned" => kpi_summary = [error |-> "No KPI data available"]

\* monitor_kpis has returned on an empty window.
C11_Witness ==
    /\ outcomes = <<>>
    /\ kpi_pc = "returned"
    /\ kpi_summary # NoReturn

-----------------------------------------------------------------------------
(* DriftDetector (watchtower/monitoring/drift.py) *)

\* Scores, p-values and accuracies are exact fractions <<numerator,
\* denominator>> until the code rounds them; a rounded value is the integer
\* value * Scale.

\* settings.drift_threshold = 0.1, times Scale.
drift_threshold == 1000

MaxSample == 3

MaxBuckets == 8

MaxCycleRows == 1

MaxCycleBuckets == 2

RECURSIVE gcd(_, _)
gcd(a, b) == IF b = 0 THEN a ELSE gcd(b, a % b)

\* The fraction f, denominator > 0, in lowest terms.
reduce(f) ==
    LET g == gcd(Abs(f[1]), f[2])
    IN  <<f[1] \div g, f[2] \div g>>

frac_add(f, g) == reduce(<<f[1] * g[2] + g[1] * f[2], f[2] * g[2]>>)

frac_sub(f, g) == reduce(<<f[1] * g[2] - g[1] * f[2], f[2] * g[2]>>)

\* f > v / Scale and f < v / Scale.
frac_gt(f, v) == f[1] * Scale > v * f[2]

frac_lt(f, v) == f[1] * Scale < v * f[2]

RECURSIVE frac_sum(_)
frac_sum(fs) ==
    IF fs = <<>> THEN <<0, 1>> ELSE frac_add(Head(fs), frac_sum(Tail(fs)))

\* np.mean of a non-empty list.
mean(fs) ==
    LET total == frac_sum(fs)
    IN  reduce(<<total[1], total[2] * Len(fs)>>)

Max(S) == CHOOSE x \in S : \A y \in S : y <= x

\* The result a detector returns when it has too little data, lines 76-81,
\* 144-149, 159-164 and 214-219.
zero_result(drift_type) ==
    [ drift_score    |-> 0,
      p_value        |-> Scale,
      drift_detected |-> FALSE,
      drift_type     |-> drift_type ]

\* A call that ends in an exception.
Raised(exception) == [raised |-> exception]

\* Number of sample values that are <= v.
ecdf_count(values, v) == Cardinality({i \in DOMAIN values : values[i] <= v})

\* Variant: the baseline distribution function counts the values strictly below v.
ks_statistic_strict(baseline_values, current_values) ==
    LET n == Len(baseline_values)
        m == Len(current_values)
        points == {baseline_values[i] : i \in DOMAIN baseline_values}
                  \cup {current_values[i] : i \in DOMAIN current_values}
    IN  reduce(<<Max({Abs(Cardinality({i \in DOMAIN baseline_values :
                                          baseline_values[i] < v}) * m
                          - ecdf_count(current_values, v) * n) : v \in points}),
                 n * m>>)

\* stats.ks_2samp(...)[0], line 88: the largest distance between the two
\* empirical distribution functions, for non-empty samples.
ks_statistic(baseline_values, current_values) ==
    LET n == Len(baseline_values)
        m == Len(current_values)
        points == {baseline_values[i] : i \in DOMAIN baseline_values}
                  \cup {current_values[i] : i \in DOMAIN current_values}
    IN  reduce(<<Max({Abs(ecdf_count(baseline_values, v) * m
                          - ecdf_count(current_values, v) * n) : v \in points}),
                 n * m>>)

\* p-values the grid offers: 0, 0.049996, 0.05, 0.5 and 1.
PValues == {<<0, 1>>, <<49996, 1000000>>, <<1, 20>>, <<1, 2>>, <<1, 1>>}

\* stats.ks_2samp(...)[1], line 88. The p-value is not computed: it is any
\* value of the grid, except that a statistic of 0 has the p-value 1.
ks_2samp_pvalues(baseline_values, current_values) ==
    IF baseline_values = <<>> \/ current_values = <<>> THEN {<<1, 1>>}
    ELSE IF ks_statistic(baseline_values, current_values)[1] = 0 THEN {<<1, 1>>}
    ELSE PValues

\* Variant: drift is insufficient data only when both samples are empty.
insufficient_data_both(baseline_df, current_df) == baseline_df = <<>> /\ current_df = <<>>

\* detect_statistical_drift, line 75: baseline_data.empty or current_data.empty.
insufficient_data(baseline_df, current_df) == baseline_df = <<>> \/ current_df = <<>>

\* Variant: the drift threshold is not consulted.
is_drift_detected_pvalue_only(p_value, drift_score) == frac_lt(p_value, 500)

\* detect_statistical_drift, line 94.
is_drift_detected(p_value, drift_score) ==
    frac_lt(p_value, 500) /\ frac_gt(drift_score, drift_threshold)

\* detect_statistical_drift, lines 97-102.
drift_severity(drift_score) ==
    IF frac_gt(drift_score, 3000) THEN "high"
    ELSE IF frac_gt(drift_score, 1500) THEN "medium"
    ELSE "low"

\* detect_statistical_drift, lines 63-111. stats.ks_2samp raises ValueError
\* on an empty sample.
detect_statistical_drift(baseline_df, current_df, feature_name, p_value) ==
    IF insufficient_data(baseline_df, current_df) THEN zero_result("insufficient_data")
    ELSE IF baseline_df = <<>> \/ current_df = <<>> THEN Raised("ValueError")
    ELSE
      LET drift_score == ks_statistic(baseline_df, current_df)
      IN  [ drift_score    |-> round4(drift_score[1], drift_score[2]),
            p_value        |-> round4(p_value[1], p_value[2]),
            drift_detected |-> is_drift_detected(p_value, drift_score),
            drift_type     |-> "statistical",
            severity       |-> drift_severity(drift_score),
            feature_name   |-> feature_name ]

\* detect_concept_drift, lines 152-156: one accuracy per row with predictions.
RECURSIVE accuracies_of(_)
accuracies_of(result) ==
    IF result = <<>> THEN <<>>
    ELSE (IF Head(result)[1] > 0
          THEN <<reduce(<<Head(result)[2], Head(result)[1]>>)>>
          ELSE <<>>)
         \o accuracies_of(Tail(result))

\* accuracies[-4:]
last4(accuracies) ==
    IF Len(accuracies) <= 4 THEN accuracies
    ELSE SubSeq(accuracies, Len(accuracies) - 3, Len(accuracies))

\* accuracies[:-4]
but_last4(accuracies) ==
    IF Len(accuracies) <= 4 THEN <<>>
    ELSE SubSeq(accuracies, 1, Len(accuracies) - 4)

\* detect_concept_drift, line 167.
recent_accuracy_of(accuracies) ==
    IF Len(accuracies) >= 4 THEN mean(last4(accuracies))
    ELSE accuracies[Len(accuracies)]

\* detect_concept_drift, line 168.
baseline_accuracy_of(accuracies) ==
    IF Len(accuracies) >= 8 THEN mean(but_last4(accuracies))
    ELSE mean(accuracies)

\* detect_concept_drift, lines 113-184, on the rows the hourly query returns.
detect_concept_drift(feature_name, result) ==
    IF result = <<>> THEN zero_result("concept")
    ELSE
      LET accuracies == accuracies_of(result)
      IN  IF Len(accuracies) < 2 THEN zero_result("concept")
          ELSE
            LET recent_accuracy   == recent_accuracy_of(accuracies)
                baseline_accuracy == baseline_accuracy_of(accuracies)
                accuracy_drop     == frac_sub(baseline_accuracy, recent_accuracy)
                drift_score       == IF accuracy_drop[1] > 0 THEN accuracy_drop
                                     ELSE <<0, 1>>
                drift_detected    == frac_gt(accuracy_drop, 500)
            IN  [ drift_score    |-> round4(drift_score[1], drift_score[2]),
                  p_value        |-> IF drift_detected THEN 100 ELSE 5000,
                  drift_detected |-> drift_detected,
                  drift_type     |-> "concept",
                  severity       |-> IF frac_gt(accuracy_drop, 1000) THEN "high"
                                     ELSE IF frac_gt(accuracy_drop, 500) THEN "medium"
                                     ELSE "low",
                  feature_name   |-> feature_name,
                  baseline_accuracy |-> round4(baseline_accuracy[1],
                                               baseline_accuracy[2]),
                  recent_accuracy   |-> round4(recent_accuracy[1],
                                               recent_accuracy[2]) ]

\* The 'amount' column of the rows of a transactions query whose timestamp
\* lies in one of the given age classes.
RECURSIVE amounts_in(_, _)
amounts_in(rows, ages) ==
    IF rows = <<>> THEN <<>>
    ELSE (IF Head(rows)[2] \in ages THEN <<Head(rows)[1]>> ELSE <<>>)
         \o amounts_in(Tail(rows), ages)

\* load_baseline_data, lines 30-60: the rows of the last 30 days.
load_baseline_data(rows) == amounts_in(rows, {"month", "window"})

\* detect_covariate_drift, lines 202-211: the rows of the time window.
current_result(rows) == amounts_in(rows, {"window"})

\* detect_covariate_drift, lines 186-228.
detect_covariate_drift(feature_name, rows, p_value) ==
    IF current_result(rows) = <<>> THEN zero_result("covariate")
    ELSE
      LET statistical == detect_statistical_drift(load_baseline_data(rows),
                                                    current_result(rows),
                                                    feature_name, p_value)
      IN  [statistical EXCEPT !.drift_type = "covariate"]

\* store_drift_metrics, line 246: drift_data['feature_name'] raises KeyError
\* when the key is missing.
can_store(drift_data) == "feature_name" \in DOMAIN drift_data

\* store_drift_metrics, lines 241-253: the inserted row.
drift_row(drift_data) ==
    [ feature_name   |-> drift_data.feature_name,
      drift_score    |-> drift_data.drift_score,
      p_value        |-> drift_data.p_value,
      drift_detected |-> drift_data.drift_detected,
      drift_type     |-> IF "drift_type" \in DOMAIN drift_data
                         THEN drift_data.drift_type ELSE "unknown",
      severity       |-> IF "severity" \in DOMAIN drift_data
                         THEN drift_data.severity ELSE "low" ]

\* monitor_drift, line 303.
features == <<"transaction_amount", "transaction_frequency", "user_behavior_score">>

-----------------------------------------------------------------------------
(* Inputs of the drift detector *)

Amounts == {100, 200}

\* Fifty values of 100.
Fifty100 == [i \in 1..50 |-> 100]

\* n increasing amounts.
ramp(n, offset) == [i \in 1..n |-> 100 * i + offset]

Samples ==
    UNION { [1..n -> Amounts] : n \in 0..MaxSample }
    \cup {Fifty100, ramp(8, 0), ramp(8, 50), ramp(12, 0), ramp(12, 50)}

\* Rows <<total_predictions, correct_predictions>> of one hour; GROUP BY
\* returns no hour without predictions.
HourlyRows == {<<2, 1>>, <<7, 6>>, <<20, 19>>}

HourlyResults(max) == UNION { [1..n -> HourlyRows] : n \in 0..max }

\* Age of a transaction: older than 30 days, within 30 days, within the window.
Ages == {"old", "month", "window"}

Tables(max) == UNION { [1..n -> Amounts \X Ages] : n \in 0..max }

-----------------------------------------------------------------------------
(* Specification of the drift detector and of monitor_drift *)

InitDrift ==
    /\ drift_call \in {"statistical", "concept", "covariate", "monitor"}
    /\ baseline_data \in (IF drift_call = "statistical" THEN Samples ELSE {<<>>})
    /\ current_data \in (IF drift_call = "statistical" THEN Samples ELSE {<<>>})
    /\ hourly \in (IF drift_call = "concept" THEN HourlyResults(MaxBuckets)
                   ELSE IF drift_call = "monitor" THEN HourlyResults(MaxCycleBuckets)
                   ELSE {<<>>})
    /\ transactions \in (IF drift_call = "covariate" THEN Tables(MaxSample)
                         ELSE IF drift_call = "monitor" THEN Tables(MaxCycleRows)
                         ELSE {<<>>})
    /\ ks_pvalue \in (IF drift_call = "statistical"
                      THEN ks_2samp_pvalues(baseline_data, current_data)
                      ELSE ks_2samp_pvalues(load_baseline_data(transactions),
                                            current_result(transactions)))
    /\ drift_result = NoResult
    /\ drift_pc = "start"
    /\ feature_ix = 1
    /\ concept_drift = NoResult
    /\ covariate_drift = NoResult
    /\ drift_results = <<>>
    /\ drift_detection = <<>>
    /\ drift_summary = NoReturn
    /\ IdleKpi
    /\ IdlePlaybooks
    /\ IdleCoverage

\* A direct call of detect_statistical_drift.
DetectStatisticalDrift ==
    /\ drift_call = "statistical"
    /\ drift_pc = "start"
    /\ drift_result' = detect_statistical_drift(baseline_data, current_data,
                                                features[1], ks_pvalue)
    /\ drift_pc' = "returned"
    /\ UNCHANGED <<drift_call, baseline_data, current_data, ks_pvalue, hourly,
                   transactions, feature_ix, concept_drift, covariate_drift,
                   drift_results, drift_detection, drift_summary,
                   kpiVars, playbookVars, coverageVars>>

\* A direct call of detect_concept_drift.
DetectConceptDrift ==
    /\ drift_call = "concept"
    /\ drift_pc = "start"
    /\ drift_result' = detect_concept_drift(features[1], hourly)
    /\ drift_pc' = "returned"
    /\ UNCHANGED <<drift_call, baseline_data, current_data, ks_pvalue, hourly,
                   transactions, feature_ix, concept_drift, covariate_drift,
                   drift_results, drift_detection, drift_summary,
                   kpiVars, playbookVars, coverageVars>>

\* A direct call of detect_covariate_drift.
DetectCovariateDrift ==
    /\ drift_call = "covariate"
    /\ drift_pc = "start"
    /\ baseline_data' = load_baseline_data(transactions)
    /\ current_data' = current_result(transactions)
    /\ drift_result' = detect_covariate_drift(features[1], transactions, ks_pvalue)
    /\ drift_pc' = "returned"
    /\ UNCHANGED <<drift_call, ks_pvalue, hourly, transactions, feature_ix,
                   concept_drift, covariate_drift, drift_results, drift_detection,
                   drift_summary, kpiVars, playbookVars, coverageVars>>

\* monitor_drift, lines 309-310: the two detections of one loop iteration.
MonitorDetect ==
    /\ drift_call = "monitor"
    /\ drift_pc = "start"
    /\ feature_ix <= Len(features)
    /\ concept_drift' = detect_concept_drift(features[feature_ix], hourly)
    /\ covariate_drift' = detect_covariate_drift(features[feature_ix], transactions,
                                                 ks_pvalue)
    /\ drift_pc' = "store_concept"
    /\ UNCHANGED <<drift_call, baseline_data, current_data, ks_pvalue, hourly,
                   transactions, drift_result, feature_ix, drift_results,
                   drift_detection, drift_summary,
                   kpiVars, playbookVars, coverageVars>>

\* monitor_drift, line 313: store_drift_metrics(concept_drift) succeeds.
StoreConceptDrift ==
    /\ drift_pc = "store_concept"
    /\ can_store(concept_drift)
    /\ drift_detection' = Append(drift_detection, drift_row(concept_drift))
    /\ drift_pc' = "store_covariate"
    /\ UNCHANGED <<drift_call, baseline_data, current_data, ks_pvalue, hourly,
                   transactions, drift_result, feature_ix, concept_drift,
                   covariate_drift, drift_results, drift_summary,
                   kpiVars, playbookVars, coverageVars>>

\* monitor_drift, lines 314-316: store_drift_metrics(covariate_drift) succeeds
\* and both results join drift_results.
StoreCovariateDrift ==
    /\ drift_pc = "store_covariate"
    /\ can_store(covariate_drift)
    /\ drift_detection' = Append(drift_detection, drift_row(covariate_drift))
    /\ drift_results' = drift_results \o <<concept_drift, covariate_drift>>
    /\ feature_ix' = feature_ix + 1
    /\ drift_pc' = "start"
    /\ UNCHANGED <<drift_call, baseline_data, current_data, ks_pvalue, hourly,
                   transactions, drift_result, concept_drift, covariate_drift,
                   drift_summary, kpiVars, playbookVars, coverageVars>>

\* The result store_drift_metrics is called with at this position.
drift_data_at(pc) == IF pc = "store_concept" THEN concept_drift ELSE covariate_drift

\* monitor_drift, lines 313-314 and 333-335: store_drift_metrics raises, a
\* KeyError for a result without 'feature_name' or an error of the insert;
\* the except clause returns {'error': str(e)}.
StoreDriftMetricsFails ==
    /\ drift_pc \in {"store_concept", "store_covariate"}
    /\ drift_summary' = [error |-> IF can_store(drift_data_at(drift_pc))
                                   THEN "store_drift_metrics"
                                   ELSE "'feature_name'"]
    /\ drift_pc' = "returned"
    /\ UNCHANGED <<drift_call, baseline_data, current_data, ks_pvalue, hourly,
                   transactions, drift_result, feature_ix, concept_drift,
                   covariate_drift, drift_results, drift_detection,
                   kpiVars, playbookVars, coverageVars>>

\* monitor_drift, lines 318-331: the summary.
ReturnDriftSummary ==
    /\ drift_call = "monitor"
    /\ drift_pc = "start"
    /\ feature_ix > Len(features)
    /\ drift_summary' =
          [ features_monitored   |-> Len(features),
            total_drift_events   |-> Cardinality({i \in DOMAIN drift_results :
                                        drift_results[i].drift_detected}),
            high_severity_events |-> Cardinality({i \in DOMAIN drift_results :
                                        /\ "severity" \in DOMAIN drift_results[i]
                                        /\ drift_results[i].severity = "high"}),
            drift_results        |-> drift_results ]
    /\ drift_pc' = "returned"
    /\ UNCHANGED <<drift_call, baseline_data, current_data, ks_pvalue, hourly,
                   transactions, drift_result, feature_ix, concept_drift,
                   covariate_drift, drift_results, drift_detection,
                   kpiVars, playbookVars, coverageVars>>

NextDrift ==
    \/ DetectStatisticalDrift
    \/ DetectConceptDrift
    \/ DetectCovariateDrift
    \/ MonitorDetect
    \/ StoreConceptDrift
    \/ StoreCovariateDrift
    \/ StoreDriftMetricsFails
    \/ ReturnDriftSummary

SpecDrift == InitDrift /\ [][NextDrift]_vars

-----------------------------------------------------------------------------
(* Claims about the drift detector (SpecDrift) *)

\* detect_statistical_drift has returned for two non-empty samples.
StatisticalCompared ==
    /\ drift_call = "statistical"
    /\ drift_pc = "returned"
    /\ baseline_data # <<>>
    /\ current_data # <<>>

\* The test statistic of the two samples.
KsStatistic == ks_statistic(baseline_data, current_data)

\* C12: for non-empty samples detect_statistical_drift reports drift_detected
\* exactly when the p-value is below 0.05 and the test statistic is above the
\* drift threshold 0.1, and severity high for a statistic above 0.3, medium
\* for one above 0.15 and at most 0.3, low otherwise.
C12_DetectionRule ==
    StatisticalCompared =>
        /\ drift_result.drift_detected
              = (/\ 20 * ks_pvalue[1] < ks_pvalue[2]
                 /\ 10 * KsStatistic[1] > KsStatistic[2])
        /\ drift_result.severity
              = (IF 10 * KsStatistic[1] > 3 * KsStatistic[2] THEN "high"
                 ELSE IF 100 * KsStatistic[1] > 15 * KsStatistic[2] THEN "medium"
                 ELSE "low")

\* Drift is detected on a statistic between 0.15 and 0.3.
C12_Witness ==
    /\ StatisticalCompared
    /\ drift_result.drift_detected
    /\ drift_result.severity = "medium"

\* detect_concept_drift has returned.
ConceptCalled == drift_call = "concept" /\ drift_pc = "returned"

\* The accuracies of the buckets of the window, oldest first.
Accuracies == accuracies_of(hourly)

\* max(0, f) rounded to 4 decimals.
RoundedPositivePart(f) == IF f[1] > 0 THEN round4(f[1], f[2]) ELSE 0

\* C13: for at least 2 buckets detect_concept_drift compares the mean
\* accuracy of the most recent 4 buckets with the mean accuracy of the buckets
\* that precede those 4, returns drift_score = max(0, baseline - recent),
\* never negative, and reports drift_detected exactly when drift_score > 0.05.
\* The comparison is read on windows that have a bucket preceding the recent 4.
C13_RecentFourAgainstPreceding ==
    (ConceptCalled /\ Len(Accuracies) >= 2) =>
        /\ drift_result.drift_score >= 0
        /\ drift_result.drift_detected = (drift_result.drift_score > 500)
        /\ Len(Accuracies) > 4 =>
              LET recent   == mean(last4(Accuracies))
                  baseline == mean(but_last4(Accuracies))
              IN  /\ drift_result.recent_accuracy = round4(recent[1], recent[2])
                  /\ drift_result.baseline_accuracy
                        = round4(baseline[1], baseline[2])
                  /\ drift_result.drift_score
                        = RoundedPositivePart(frac_sub(baseline, recent))

\* C14: with insufficient data each detector returns drift_score = 0 and
\* drift_detected = false and does not raise: detect_statistical_drift on an
\* empty baseline or current sample (drift_type insufficient_data),
\* detect_concept_drift on fewer than 2 buckets, detect_covariate_drift on a
\* window without rows.
C14_InsufficientDataGivesZero ==
    /\ ( /\ drift_call = "statistical"
         /\ drift_pc = "returned"
         /\ (baseline_data = <<>> \/ current_data = <<>>) ) =>
            /\ "raised" \notin DOMAIN drift_result
            /\ drift_result.drift_score = 0
            /\ drift_result.drift_detected = FALSE
            /\ drift_result.drift_type = "insufficient_data"
    /\ (ConceptCalled /\ Len(hourly) < 2) =>
            /\ "raised" \notin DOMAIN drift_result
            /\ drift_result.drift_score = 0
            /\ drift_result.drift_detected = FALSE
    /\ ( /\ drift_call = "covariate"
         /\ drift_pc = "returned"
         /\ \A i \in DOMAIN transactions : transactions[i][2] # "window" ) =>
            /\ "raised" \notin DOMAIN drift_result
            /\ drift_result.drift_score = 0
            /\ drift_result.drift_detected = FALSE

\* detect_statistical_drift has returned for a baseline with data and an
\* empty current sample.
C14_Witness ==
    /\ drift_call = "statistical"
    /\ drift_pc = "returned"
    /\ baseline_data # <<>>
    /\ current_data = <<>>
    /\ drift_result.drift_type = "insufficient_data"

\* C15: detect_statistical_drift on a non-empty sample as both baseline and
\* current returns drift_score = 0 and drift_detected = false, in particular
\* for fifty values of 100.
C15_IdenticalSamplesNoDrift ==
    (StatisticalCompared /\ baseline_data = current_data) =>
        /\ drift_result.drift_score = 0
        /\ drift_result.drift_detected = FALSE

\* The scenario: baseline and current are fifty values of 100.
C15_Witness ==
    /\ StatisticalCompared
    /\ baseline_data = Fifty100
    /\ current_data = Fifty100
    /\ drift_result.drift_score = 0
    /\ drift_result.drift_detected = FALSE

\* The results monitor_drift has computed: those of the finished iterations
\* and the two of the iteration in progress.
ComputedResults ==
    drift_results
    \o (IF drift_pc = "start" \/ concept_drift = NoResult
           \/ (drift_pc = "returned" /\ "error" \notin DOMAIN drift_summary)
        THEN <<>> ELSE <<concept_drift, covariate_drift>>)

\* C16: when the write of a drift result fails in a monitoring cycle, every
\* detection result computed in the cycle is still returned and the failure
\* is reported beside the results.
C16_ResultsSurviveStoreFailure ==
    ( /\ drift_call = "monitor"
      /\ drift_pc = "returned"
      /\ "error" \in DOMAIN drift_summary ) =>
        /\ "drift_results" \in DOMAIN drift_summary
        /\ drift_summary.drift_results = ComputedResults

-----------------------------------------------------------------------------
(* CoverageMonitor (watchtower/monitoring/coverage.py) *)

\* Percentages are fixed-point numbers with two decimals: the integer
\* value * PercentScale.
PercentScale == 100

\* settings.coverage_threshold * 100 = 95, times PercentScale.
default_threshold == 9500

\* p.prediction of a transaction without a model_predictions row (LEFT JOIN).
NoPrediction == -1

\* Variant: the quotient is cut after two decimals.
round2_truncate(n, d) == (n * PercentScale) \div d

\* round(n / d, 2) as a fixed-point value: nearest multiple of 1/PercentScale,
\* a tie going to the even neighbour. n >= 0, d > 0.
round2(n, d) ==
    LET q == (n * PercentScale) \div d
        r == (n * PercentScale) % d
    IN  IF 2 * r < d THEN q
        ELSE IF 2 * r > d THEN q + 1
        ELSE IF q % 2 = 0 THEN q ELSE q + 1

\* Variant: only the fraud transactions are counted.
total_transactions_fraud_only(rows) ==
    CountRows(rows, {1} \X {0, 1, NoPrediction})

\* calculate_coverage, line 45: COUNT(*).
total_transactions(rows) == Len(rows)

\* calculate_coverage, line 46: SUM(CASE WHEN is_fraud = 1 ...).
fraud_transactions(rows) == CountRows(rows, {1} \X {0, 1, NoPrediction})

\* calculate_coverage, line 47: SUM(CASE WHEN p.prediction = 1 ...).
predicted_fraud(rows) == CountRows(rows, {0, 1} \X {1})

\* calculate_coverage, lines 27-76, on the joined rows of the time window.
calculate_coverage(risk_category, rows, time_window_hours) ==
    IF total_transactions(rows) = 0
    THEN [ coverage_percentage |-> 0,
           total_samples       |-> 0,
           covered_samples     |-> 0,
           gap_count           |-> 0 ]
    ELSE [ coverage_percentage |->
               IF fraud_transactions(rows) > 0
               THEN round2(predicted_fraud(rows) * 100, fraud_transactions(rows))
               ELSE 0,
           total_samples       |-> total_transactions(rows),
           covered_samples     |-> predicted_fraud(rows),
           gap_count           |-> fraud_transactions(rows) - predicted_fraud(rows),
           risk_category       |-> risk_category,
           time_window_hours   |-> time_window_hours ]

\* get_coverage_by_category, line 88.
risk_categories == <<"money_laundering", "terrorist_financing", "sanctions_evasion", "fraud">>

\* get_coverage_by_category, lines 78-100.
get_coverage_by_category(rows, time_window_hours) ==
    [i \in DOMAIN risk_categories |->
        calculate_coverage(risk_categories[i], rows, time_window_hours)]

\* identify_coverage_gaps, line 112: threshold or settings.coverage_threshold * 100.
\* The argument is <<>> for None and <<t>> for the number t.
threshold_or_default(threshold) ==
    IF threshold = <<>> THEN default_threshold
    ELSE IF threshold[1] = 0 THEN default_threshold
    ELSE threshold[1]

\* identify_coverage_gaps, lines 119-125: the entry appended for one sample.
gap_entry(data, threshold) ==
    [ risk_category    |-> data.risk_category,
      current_coverage |-> data.coverage_percentage,
      threshold        |-> threshold,
      gap_size         |-> threshold - data.coverage_percentage,
      priority         |-> IF 10 * data.coverage_percentage < 8 * threshold
                           THEN "high" ELSE "medium" ]

\* identify_coverage_gaps, lines 117-125: the loop over the samples.
RECURSIVE gaps_of(_, _)
gaps_of(data, threshold) ==
    IF data = <<>> THEN <<>>
    ELSE (IF Head(data).coverage_percentage < threshold
          THEN <<gap_entry(Head(data), threshold)>> ELSE <<>>)
         \o gaps_of(Tail(data), threshold)

\* identify_coverage_gaps, lines 102-127: the gaps, or the KeyError that
\* data['risk_category'] raises on a sample below the threshold without the key.
identify_coverage_gaps(threshold, rows) ==
    LET effective == threshold_or_default(threshold)
        data      == get_coverage_by_category(rows, 24)
    IN  IF \E i \in DOMAIN data :
              /\ data[i].coverage_percentage < effective
              /\ "risk_category" \notin DOMAIN data[i]
        THEN Raised("KeyError")
        ELSE [gaps |-> gaps_of(data, effective)]

\* store_coverage_metrics, lines 139-149: the inserted row.
coverage_row(data) ==
    [ risk_category       |-> data.risk_category,
      coverage_percentage |-> data.coverage_percentage,
      total_samples       |-> data.total_samples,
      covered_samples     |-> data.covered_samples ]

-----------------------------------------------------------------------------
(* Specification of the coverage monitor and of monitor_coverage *)

CoverageWindows ==
    UNION { [1..n -> {0, 1} \X {0, 1, NoPrediction}] : n \in 0..MaxRecords }

\* Threshold arguments: None, 0, 60 and 95.
Thresholds == {<<>>, <<0>>, <<6000>>, <<9500>>}

\* hours_back values of GET /coverage/calculate: the last hour and the default.
HoursBack == {1, 24}

\* calculate_coverage, lines 41-51: the rows with t.timestamp >= cutoff_time
\* for a window of the given number of hours.
rows_since(time_window_hours) ==
    IF time_window_hours >= 24 THEN coverage_window
    ELSE SubSeq(coverage_window, Len(coverage_window) - last_hour + 1,
                Len(coverage_window))

InitCoverage ==
    /\ coverage_call \in {"gaps", "monitor", "calculate"}
    /\ coverage_window \in CoverageWindows
    /\ hours_back \in (IF coverage_call = "calculate" THEN HoursBack ELSE {24})
    /\ last_hour \in (IF hours_back = 1 THEN 0..Len(coverage_window)
                      ELSE {Len(coverage_window)})
    /\ threshold_arg \in (IF coverage_call = "gaps" THEN Thresholds ELSE {<<>>})
    /\ coverage_data = <<>>
    /\ gaps = NoResult
    /\ risk_coverage = <<>>
    /\ coverage_summary = NoReturn
    /\ coverage_pc = "start"
    /\ IdleKpi
    /\ IdlePlaybooks
    /\ IdleDrift

\* A call of identify_coverage_gaps(threshold), as GET /coverage/gaps makes it.
IdentifyCoverageGaps ==
    /\ coverage_call = "gaps"
    /\ coverage_pc = "start"
    /\ coverage_data' = get_coverage_by_category(coverage_window, 24)
    /\ gaps' = identify_coverage_gaps(threshold_arg, coverage_window)
    /\ coverage_pc' = "returned"
    /\ UNCHANGED <<coverage_call, coverage_window, last_hour, hours_back, threshold_arg, risk_coverage,
                   coverage_summary, kpiVars, playbookVars, driftVars>>

\* monitor_coverage, line 199.
GetCoverageByCategory ==
    /\ coverage_call = "monitor"
    /\ coverage_pc = "start"
    /\ coverage_data' = get_coverage_by_category(coverage_window, 24)
    /\ coverage_pc' = "identify"
    /\ UNCHANGED <<coverage_call, coverage_window, last_hour, hours_back, threshold_arg, gaps, risk_coverage,
                   coverage_summary, kpiVars, playbookVars, driftVars>>

\* monitor_coverage, line 202: identify_coverage_gaps() returns.
MonitorIdentifyGaps ==
    /\ coverage_pc = "identify"
    /\ "raised" \notin DOMAIN identify_coverage_gaps(<<>>, coverage_window)
    /\ gaps' = identify_coverage_gaps(<<>>, coverage_window)
    /\ coverage_pc' = "store"
    /\ UNCHANGED <<coverage_call, coverage_window, last_hour, hours_back, threshold_arg, coverage_data,
                   risk_coverage, coverage_summary,
                   kpiVars, playbookVars, driftVars>>

\* monitor_coverage, lines 202 and 221-223: identify_coverage_gaps() raises.
MonitorIdentifyGapsFails ==
    /\ coverage_pc = "identify"
    /\ "raised" \in DOMAIN identify_coverage_gaps(<<>>, coverage_window)
    /\ gaps' = identify_coverage_gaps(<<>>, coverage_window)
    /\ coverage_summary' = [error |-> "'risk_category'"]
    /\ coverage_pc' = "returned"
    /\ UNCHANGED <<coverage_call, coverage_window, last_hour, hours_back, threshold_arg, coverage_data,
                   risk_coverage, kpiVars, playbookVars, driftVars>>

\* monitor_coverage, lines 205-206: one iteration of the store loop.
StoreCoverageMetrics ==
    /\ coverage_pc = "store"
    /\ Len(risk_coverage) < Len(coverage_data)
    /\ "risk_category" \in DOMAIN coverage_data[Len(risk_coverage) + 1]
    /\ risk_coverage' = Append(risk_coverage,
                               coverage_row(coverage_data[Len(risk_coverage) + 1]))
    /\ UNCHANGED <<coverage_call, coverage_window, last_hour, hours_back, threshold_arg, coverage_data, gaps,
                   coverage_summary, coverage_pc,
                   kpiVars, playbookVars, driftVars>>

\* monitor_coverage, lines 205-206 and 221-223: store_coverage_metrics raises.
StoreCoverageMetricsFails ==
    /\ coverage_pc = "store"
    /\ Len(risk_coverage) < Len(coverage_data)
    /\ coverage_summary' =
          [error |-> IF "risk_category" \in DOMAIN coverage_data[Len(risk_coverage) + 1]
                     THEN "store_coverage_metrics" ELSE "'risk_category'"]
    /\ coverage_pc' = "returned"
    /\ UNCHANGED <<coverage_call, coverage_window, last_hour, hours_back, threshold_arg, coverage_data, gaps,
                   risk_coverage, kpiVars, playbookVars, driftVars>>

\* sum(d['coverage_percentage'] for d in coverage_data)
RECURSIVE sum_coverage(_)
sum_coverage(data) ==
    IF data = <<>> THEN 0
    ELSE Head(data).coverage_percentage + sum_coverage(Tail(data))

\* monitor_coverage, lines 209-219: the summary; average_coverage is the
\* fraction <<sum, count>>.
ReturnCoverageSummary ==
    /\ coverage_pc = "store"
    /\ Len(risk_coverage) = Len(coverage_data)
    /\ coverage_summary' =
          [ total_categories           |-> Len(coverage_data),
            categories_below_threshold |-> Len(gaps.gaps),
            average_coverage           |-> <<sum_coverage(coverage_data),
                                             Len(coverage_data)>>,
            gaps                       |-> gaps.gaps,
            coverage_data              |-> coverage_data ]
    /\ coverage_pc' = "returned"
    /\ UNCHANGED <<coverage_call, coverage_window, last_hour, hours_back, threshold_arg, coverage_data, gaps,
                   risk_coverage, kpiVars, playbookVars, driftVars>>

\* The samples at the head of data that store_coverage_metrics can read
\* 'risk_category' of (line 144).
RECURSIVE storable(_)
storable(data) ==
    IF data = <<>> THEN 0
    ELSE IF "risk_category" \notin DOMAIN Head(data) THEN 0
    ELSE 1 + storable(Tail(data))

\* GET /coverage/calculate (routes/coverage.py, lines 104-144): the samples of
\* the last hours_back hours (line 120), identify_coverage_gaps() (line 126),
\* the store loop (lines 129-130), of which k iterations succeed, and the
\* result (lines 132-140); any exception is answered 500 (lines 142-144).
\* "if not coverage_data" (line 122) is never true of a list of four samples.
CalculateCoverageRoute ==
    /\ coverage_call = "calculate"
    /\ coverage_pc = "start"
    /\ LET data  == get_coverage_by_category(rows_since(hours_back), hours_back)
           found == identify_coverage_gaps(<<>>, coverage_window)
       IN  /\ coverage_data' = data
           /\ gaps' = found
           /\ IF "raised" \in DOMAIN found
              THEN /\ risk_coverage' = risk_coverage
                   /\ coverage_summary' = [status_code |-> 500]
              ELSE \E k \in 0..storable(data) :
                      /\ risk_coverage' = risk_coverage \o
                             [i \in 1..k |-> coverage_row(data[i])]
                      /\ coverage_summary' =
                             IF k < Len(data)
                             THEN [status_code |-> 500]
                             ELSE [ status_code   |-> 200,
                                    coverage_data |-> data,
                                    gaps          |-> found.gaps,
                                    calculation_window_hours |-> hours_back ]
    /\ coverage_pc' = "returned"
    /\ UNCHANGED <<coverage_call, coverage_window, last_hour, hours_back,
                   threshold_arg, kpiVars, playbookVars, driftVars>>

NextCoverage ==
    \/ IdentifyCoverageGaps
    \/ CalculateCoverageRoute
    \/ GetCoverageByCategory
    \/ MonitorIdentifyGaps
    \/ MonitorIdentifyGapsFails
    \/ StoreCoverageMetrics
    \/ StoreCoverageMetricsFails
    \/ ReturnCoverageSummary

SpecCoverage == InitCoverage /\ [][NextCoverage]_vars

-----------------------------------------------------------------------------
(* Claims about the coverage monitor (SpecCoverage) *)

\* Records of the window with is_fraud = 1, and with prediction = 1.
ActualPositive ==
    Cardinality({i \in DOMAIN rows_since(hours_back) : rows_since(hours_back)[i][1] = 1})

PredictedPositive ==
    Cardinality({i \in DOMAIN rows_since(hours_back) : rows_since(hours_back)[i][2] = 1})

\* get_coverage_by_category has computed the samples of a window with records.
CoverageCalculated == coverage_data # <<>> /\ rows_since(hours_back) # <<>>

\* The original reading of C17: coverage_percentage is exactly
\* predicted_positive / actual_positive * 100.
C17_ExactCoverage ==
    CoverageCalculated =>
        \A i \in DOMAIN coverage_data :
            /\ IF ActualPositive = 0
               THEN coverage_data[i].coverage_percentage = 0
               ELSE coverage_data[i].coverage_percentage * ActualPositive
                       = PredictedPositive * 100 * PercentScale
            /\ coverage_data[i].gap_count = ActualPositive - PredictedPositive

\* C17: for a window with at least one record calculate_coverage returns
\* coverage_percentage = predicted_positive / actual_positive * 100 rounded to
\* two decimals and gap_count = actual_positive - predicted_positive, and
\* coverage_percentage = 0 when actual_positive = 0.
C17_RoundedCoverage ==
    CoverageCalculated =>
        \A i \in DOMAIN coverage_data :
            /\ IF ActualPositive = 0
               THEN coverage_data[i].coverage_percentage = 0
               ELSE 2 * Abs(coverage_data[i].coverage_percentage * ActualPositive
                            - PredictedPositive * 100 * PercentScale)
                       <= ActualPositive
            /\ coverage_data[i].gap_count = ActualPositive - PredictedPositive

\* One of three actual positives is predicted: 33.33 percent, two missed.
C17_Witness ==
    /\ CoverageCalculated
    /\ ActualPositive = 3
    /\ PredictedPositive = 1
    /\ coverage_data[1].coverage_percentage = 3333
    /\ coverage_data[1].gap_count = 2

\* C18: every sample calculate_coverage produces has
\* covered_samples <= total_samples.
C18_CoveredAtMostTotal ==
    \A i \in DOMAIN coverage_data :
        coverage_data[i].covered_samples <= coverage_data[i].total_samples

\* Every record of a window of two or more is predicted positive, none is one.
C18_Witness ==
    /\ CoverageCalculated
    /\ ActualPositive = 0
    /\ coverage_data[1].total_samples >= 2
    /\ coverage_data[1].covered_samples = coverage_data[1].total_samples

\* The threshold the caller asked for.
CallerThreshold ==
    IF threshold_arg = <<>> THEN default_threshold ELSE threshold_arg[1]

\* The samples of coverage_data below the caller's threshold, in order.
BelowThreshold == SelectSeq(coverage_data,
                            LAMBDA d : d.coverage_percentage < CallerThreshold)

\* C19: identify_coverage_gaps returns exactly the categories whose
\* coverage_percentage is below the threshold the caller passed (the default
\* only when none is passed), in category order, each with
\* gap_size = threshold - coverage_percentage and priority high below
\* 0.8 * threshold, medium otherwise.
C19_GapsBelowCallerThreshold ==
    (coverage_call = "gaps" /\ coverage_pc = "returned") =>
        /\ "gaps" \in DOMAIN gaps
        /\ Len(gaps.gaps) = Len(BelowThreshold)
        /\ \A i \in DOMAIN gaps.gaps :
              /\ "risk_category" \in DOMAIN BelowThreshold[i]
              /\ gaps.gaps[i].risk_category = BelowThreshold[i].risk_category
              /\ gaps.gaps[i].gap_size
                    = CallerThreshold - BelowThreshold[i].coverage_percentage
              /\ gaps.gaps[i].priority
                    = (IF 10 * BelowThreshold[i].coverage_percentage
                             < 8 * CallerThreshold
                       THEN "high" ELSE "medium")

\* C20: for every window, empty ones included, get_coverage_by_category
\* returns one sample per configured category, in the configured order, each
\* with its risk_category, and gap identification and write-back of the
\* samples do not fail on a missing key.
C20_OneSamplePerCategory ==
    (coverage_pc # "start") =>
        /\ Len(coverage_data) = Len(risk_categories)
        /\ \A i \in DOMAIN coverage_data :
              /\ "risk_category" \in DOMAIN coverage_data[i]
              /\ coverage_data[i].risk_category = risk_categories[i]
        /\ "raised" \notin DOMAIN gaps
        /\ coverage_summary # [error |-> "'risk_category'"]

-----------------------------------------------------------------------------
(* Claims about the persistence of executions (SpecPlaybook) *)

\* The rows of playbook_executions written for the execution of request r.
RowsOf(r) ==
    { i \in DOMAIN playbook_executions :
        /\ playbook_executions[i].execution_id =
               requests[r].execution_record.execution_id
        /\ playbook_executions[i].status = requests[r].execution_record.status }

\* C21: every execution whose actions have been run is in playbook_executions
\* exactly once, with its terminal status: the table has one row per finished
\* execution and no finished execution lacks its row.
C21_EveryRunRecordedOnce ==
    /\ Len(playbook_executions) = Cardinality({ r \in Requests : Finished(r) })
    /\ \A r \in Requests : Finished(r) => RowsOf(r) # {}

\* C26: any two distinct executions have different execution_id values, also
\* two executions of the same playbook that start within the same second.
C26_DistinctExecutionIds ==
    \A r1, r2 \in Requests :
        (r1 # r2 /\ HasExecution(r1) /\ HasExecution(r2)) =>
            requests[r1].execution_record.execution_id
                # requests[r2].execution_record.execution_id

-----------------------------------------------------------------------------
(* Claims about the write-back of the KPI cycle (SpecKpi) *)

\* monitor_kpis returned after a write of store_kpi_metrics raised.
KpiStoreFailed ==
    /\ kpi_pc = "returned"
    /\ kpis # <<>>
    /\ "error" \in DOMAIN kpi_summary

\* C22: when a write fails during the write-back, monitor_kpis returns the
\* metrics and alerts computed in the cycle together with the error, and that
\* result differs from the result of a window with no data.
C22_StoreFailureKeepsResults ==
    KpiStoreFailed =>
        /\ "kpis" \in DOMAIN kpi_summary
        /\ "alerts" \in DOMAIN kpi_summary
        /\ kpi_summary.kpis = kpis
        /\ kpi_summary.alerts = alerts
        /\ kpi_summary # [error |-> "No KPI data available"]

-----------------------------------------------------------------------------
(* Claims about the coverage cycle (SpecCoverage) *)

\* A coverage cycle (monitor_coverage or GET /coverage/calculate) has returned
\* its coverage_data and gaps.
CoverageCycleReturned ==
    /\ coverage_call \in {"monitor", "calculate"}
    /\ coverage_pc = "returned"
    /\ "coverage_data" \in DOMAIN coverage_summary

\* The returned samples that are below the default threshold, in order.
ReturnedBelowThreshold ==
    SelectSeq(coverage_summary.coverage_data,
              LAMBDA d : d.coverage_percentage < default_threshold)

\* C23: the gaps a coverage cycle returns are exactly the categories of the
\* coverage_data it returns whose coverage_percentage is below the threshold,
\* also when the requested window is not the default window.
C23_GapsFromCycleResults ==
    CoverageCycleReturned =>
        /\ Len(coverage_summary.gaps) = Len(ReturnedBelowThreshold)
        /\ \A i \in DOMAIN coverage_summary.gaps :
              /\ coverage_summary.gaps[i].risk_category
                    = ReturnedBelowThreshold[i].risk_category
              /\ coverage_summary.gaps[i].current_coverage
                    = ReturnedBelowThreshold[i].coverage_percentage

-----------------------------------------------------------------------------
(* Claims about the stored samples and the notifications (SpecKpi) *)

\* C24: every row of the kpis table whose metric has thresholds carries the
\* status that the threshold classification assigns to its value.
C24_StoredStatusIsClassified ==
    \A i \in DOMAIN kpis_table :
        has_thresholds(kpis_table[i].metric_name) =>
            kpis_table[i].status =
                status_and_severity(kpis_table[i].metric_value,
                                    alert_thresholds[kpis_table[i].metric_name]).status

\* The transport calls made for the alert of a metric.
CallsFor(metric_name) ==
    { j \in DOMAIN transport_calls : transport_calls[j].metric_name = metric_name }

-----------------------------------------------------------------------------
(* Claims about the range of the coverage (SpecCoverage) *)

\* C27: every coverage_percentage that calculate_coverage returns lies between
\* 0 and 100 inclusive.
C27_CoverageWithinRange ==
    \A i \in DOMAIN coverage_data :
        /\ coverage_data[i].coverage_percentage >= 0
        /\ coverage_data[i].coverage_percentage <= 100 * PercentScale

-----------------------------------------------------------------------------
(* Claims about the drift cycle on an empty window (SpecDrift) *)

\* monitor_drift runs on a store without records in the window.
EmptyWindowCycle ==
    /\ drift_call = "monitor"
    /\ hourly = <<>>
    /\ current_result(transactions) = <<>>

\* C28: on a store without records in the window every result the detectors
\* return carries the fields store_drift_metrics reads, and unless an insert
\* fails monitor_drift returns a summary with total_drift_events = 0 and one
\* concept and one covariate result per feature.
C28_EmptyWindowCycleCompletes ==
    EmptyWindowCycle =>
        /\ concept_drift # NoResult => can_store(concept_drift)
        /\ covariate_drift # NoResult => can_store(covariate_drift)
        /\ (drift_pc = "returned" /\ drift_summary # [error |-> "store_drift_metrics"]) =>
              /\ "drift_results" \in DOMAIN drift_summary
              /\ drift_summary.total_drift_events = 0
              /\ Len(drift_summary.drift_results) = 2 * Len(features)

-----------------------------------------------------------------------------
(* Claims about the playbook routes as a client sees them (SpecRoutes) *)

\* No playbook of the registry has the id the request names.
UnknownPlaybook(playbook_id) ==
    \A i \in DOMAIN registry : registry[i].id # playbook_id

\* C29: a client error raised in a handler keeps its status code: POST / with
\* a missing required field answers 400 and leaves the registry as it was,
\* GET /{playbook_id} and POST /{playbook_id}/execute for an id that is not
\* in the registry answer 404, and no execution record is written.
C29_ClientErrorsKeepStatus ==
    /\ (matched = "create_playbook" /\ http_response # 0
          /\ missing_field(http_request.body)) =>
            /\ http_response = 400
            /\ registry \in {<<>>, SampleRegistry}
    /\ (matched = "get_playbook" /\ http_response \notin {0, 422}
          /\ UnknownPlaybook(playbook_id_of(http_request))) =>
            http_response = 404
    /\ \A r \in Requests :
          (requests[r].pc = "done" /\ UnknownPlaybook(requests[r].playbook_id)) =>
              /\ requests[r].response = 404
              /\ playbook_executions = <<>>

\* C30: GET /templates is handled by get_playbook_templates and GET /summary
\* by get_playbook_summary.
C30_LiteralPathsReachTheirHandlers ==
    (http_request.method = "GET" /\ matched # "none") =>
        /\ http_request.path = <<"templates">> => matched = "get_playbook_templates"
        /\ http_request.path = <<"summary">> => matched = "get_playbook_summary"

=============================================================================
